---- MODULE Spec2Model ----
(***************************************************************************)
(* Model of the builder and validation layer of rusty-interaction:         *)
(*   src/types/embed.rs  Color codec, EmbedBuilder, EmbedFooter,           *)
(*                       EmbedField, EmbedThumbnail                        *)
(*   src/types/modal.rs  ModalBuilder and its build() validation           *)
(*                                                                         *)
(* A Rust String is a sequence of one-character strings, so that len() is  *)
(* Len.  An Option<T> is a sequence of length 0 (None) or 1 (Some(x)).     *)
(* A builder method takes self by value: a panic inside it unwinds and     *)
(* drops the builder, which pc = "panicked" records; build() consumes the  *)
(* builder, which pc = "built" records.                                    *)
(***************************************************************************)
EXTENDS Integers, Sequences, FiniteSets, TLC

VARIABLES
    a,        \* Color codec: the u32 handed to Color::from
    color,    \* Color codec: Option<Color>, the decoded colour
    packed,   \* Color codec: Option<u32>, the colour encoded again
    mb,       \* ModalBuilder.obj, the Modal under construction
    result,   \* Option<Result<Modal, ModalConversionError>> of ModalBuilder::build
    eb,       \* EmbedBuilder.obj, the Embed under construction
    added,    \* every item handed to add_field (add_component) so far, in call order
    footer,   \* an EmbedFooter value under construction
    field,    \* an EmbedField value under construction
    thumb,    \* an EmbedThumbnail value under construction
    call,     \* the most recent method call: its name and its arguments
    warned,   \* whether the most recent call emitted a warn! log line
    pc        \* "run", "panicked" (a setter panicked) or "built" (build() consumed the builder)

vars == <<a, color, packed, mb, result, eb, added, footer, field, thumb, call, warned, pc>>

(***************************************************************************)
(* Values                                                                  *)
(***************************************************************************)
None == <<>>

Some(x) == <<x>>

\* The string made of n copies of the character ch.
Rep(ch, n) == [i \in 1..n |-> ch]

Min(x, y) == IF x <= y THEN x ELSE y

\* Bounds of the model.
LenEdge == 1

ChanEdge == 1

\* Lengths around a limit: the shortest strings, and the limit give or take LenEdge.
LenSamples(limit) == (0..LenEdge) \cup ((limit - LenEdge)..(limit + LenEdge))

\* The strings over the characters chars whose length is sampled around limit.
StrSamples(chars, limit) == {Rep(ch, n) : ch \in chars, n \in LenSamples(limit)}

(***************************************************************************)
(* u32 / u8 arithmetic                                                     *)
(***************************************************************************)
RECURSIVE BitAnd(_, _)
BitAnd(x, y) ==
    IF x = 0 \/ y = 0 THEN 0
    ELSE (IF x % 2 = 1 /\ y % 2 = 1 THEN 1 ELSE 0) + 2 * BitAnd(x \div 2, y \div 2)

RECURSIVE BitOr(_, _)
BitOr(x, y) ==
    IF x = 0 THEN y
    ELSE IF y = 0 THEN x
    ELSE (IF x % 2 = 1 \/ y % 2 = 1 THEN 1 ELSE 0) + 2 * BitOr(x \div 2, y \div 2)

\* x >> n and x << n on u32
Shr(x, n) == x \div (2^n)

\* (x * 2^n) mod 2^32, written so that no intermediate value leaves 32 bits
Shl(x, n) == (x % (2^(32 - n))) * (2^n)

\* x as u8
AsU8(x) == x % 256

(***************************************************************************)
(* Color codec (embed.rs 124-163)                                          *)
(***************************************************************************)
ColorDefault == [red |-> 222, green |-> 165, blue |-> 132]

\* Variant: green taken from bits 16-23 (>> 16 where the code has >> 8).
ColorFromU32_GreenShift(x) ==
    [red   |-> AsU8(BitAnd(Shr(x, 16), 255)),
     green |-> AsU8(BitAnd(Shr(x, 16), 255)),
     blue  |-> AsU8(BitAnd(x, 255))]

ColorFromU32(x) ==
    [red   |-> AsU8(BitAnd(Shr(x, 16), 255)),
     green |-> AsU8(BitAnd(Shr(x, 8), 255)),
     blue  |-> AsU8(BitAnd(x, 255))]

U32FromColor(c) == BitOr(BitOr(Shl(c.red, 16), Shl(c.green, 8)), c.blue)

ChanSamples == (0..ChanEdge) \cup ((255 - ChanEdge)..255) \cup {127, 128}

\* Bits 24-30 of the input: clear (the 24-bit domain) or set.
HighSamples == {0, 1, 127}

ColorInputs ==
    {h * (2^24) + r * (2^16) + g * (2^8) + b :
        h \in HighSamples, r \in ChanSamples, g \in ChanSamples, b \in ChanSamples}

(***************************************************************************)
(* Default values (derive(Default) and the Default impls)                  *)
(***************************************************************************)
ModalDefault == [custom_id |-> <<>>, title |-> <<>>, components |-> <<>>]

EmbedDefault ==
    [title |-> None, description |-> None, url |-> None, timestamp |-> None,
     color |-> Some(U32FromColor(ColorDefault)),
     footer |-> None, image |-> None, thumbnail |-> None, video |-> None,
     provider |-> None, author |-> None, fields |-> None]

EmbedFooterDefault == [text |-> <<>>, icon_url |-> None, proxy_icon_url |-> None]

EmbedFieldDefault == [name |-> <<>>, value |-> <<>>, inline |-> None]

EmbedThumbnailDefault == [url |-> None, proxy_url |-> None, height |-> None, width |-> None]

NoCall == [op |-> "none", arg |-> <<>>]

\* The parts of the state each specification leaves alone.
ColorIdle == a = 0 /\ color = None /\ packed = None

ModalIdle == mb = ModalDefault /\ result = None

EmbedIdle == eb = EmbedDefault /\ added = <<>>

PartsIdle == footer = EmbedFooterDefault /\ field = EmbedFieldDefault

ThumbIdle == thumb = EmbedThumbnailDefault

CallIdle == call = NoCall /\ warned = FALSE /\ pc = "run"

colorVars == <<a, color, packed>>

modalVars == <<mb, result>>

embedVars == <<eb, added>>

partsVars == <<footer, field>>

(***************************************************************************)
(* Specification of the Color codec                                        *)
(***************************************************************************)
InitColor ==
    /\ a \in ColorInputs
    /\ color = None
    /\ packed = None
    /\ ModalIdle /\ EmbedIdle /\ PartsIdle /\ ThumbIdle /\ CallIdle

\* let c: Color = a.into();
ColorFrom ==
    /\ color = None
    /\ color' = Some(ColorFromU32(a))
    /\ call' = [op |-> "Color::from", arg |-> <<a>>]
    /\ UNCHANGED <<a, packed, modalVars, embedVars, partsVars, thumb, warned, pc>>

\* let p: u32 = c.into();
U32From ==
    /\ color # None
    /\ packed = None
    /\ packed' = Some(U32FromColor(color[1]))
    /\ call' = [op |-> "u32::from", arg |-> <<color[1]>>]
    /\ UNCHANGED <<a, color, modalVars, embedVars, partsVars, thumb, warned, pc>>

NextColor == ColorFrom \/ U32From

SpecColor == InitColor /\ [][NextColor]_vars

\* C1: for every x in 0..2^24-1, converting x to a Color and that Color back
\* to u32 yields exactly x.
C1_ColorRoundTrip ==
    (packed # None /\ a < 2^24) => packed[1] = a

\* A 24-bit input with three different non-zero channels went through both conversions.
C1_Witness ==
    /\ packed # None
    /\ a = 255 * (2^16) + 1 * (2^8) + 128
    /\ color[1] = [red |-> 255, green |-> 1, blue |-> 128]

(***************************************************************************)
(* ModalBuilder (modal.rs 23-122)                                          *)
(***************************************************************************)
MaxCustomIdLen == 100

MaxModalComponents == 5

\* Number of add_component calls the model makes on one builder.
MaxModalAdds == 7

Ok(m) == [ok |-> TRUE, err |-> "", modal |-> Some(m)]

Err(e) == [ok |-> FALSE, err |-> e, modal |-> None]

\* Variant: the early return after the warning is missing.
ModalBuilder_custom_id_StoresAnyway(self, id) ==
    [self |-> [self EXCEPT !.custom_id = id], warn |-> Len(id) > MaxCustomIdLen]

\* Each builder method yields the builder it returns and whether it logged a warning.
ModalBuilder_custom_id(self, id) ==
    IF Len(id) > MaxCustomIdLen
    THEN [self |-> self, warn |-> TRUE]
    ELSE [self |-> [self EXCEPT !.custom_id = id], warn |-> FALSE]

ModalBuilder_title(self, title) ==
    [self |-> [self EXCEPT !.title = title], warn |-> FALSE]

\* Variant: > where the code has >=.
ModalBuilder_add_component_OffByOne(self, component) ==
    IF Len(self.components) > MaxModalComponents
    THEN [self |-> self, warn |-> TRUE]
    ELSE [self |-> [self EXCEPT !.components = Append(@, component)], warn |-> FALSE]

\* Variant: the count is not checked.
ModalBuilder_add_component_Unguarded(self, component) ==
    [self |-> [self EXCEPT !.components = Append(@, component)], warn |-> FALSE]

ModalBuilder_add_component(self, component) ==
    IF Len(self.components) >= MaxModalComponents
    THEN [self |-> self, warn |-> TRUE]
    ELSE [self |-> [self EXCEPT !.components = Append(@, component)], warn |-> FALSE]

\* Variant: the title is checked before the custom id.
ModalBuilder_build_TitleFirst(self) ==
    IF Len(self.title) < 1 THEN Err("MissingTitle")
    ELSE IF Len(self.custom_id) < 1 THEN Err("MissingCustomId")
    ELSE IF Len(self.components) < 1 THEN Err("MissingComponents")
    ELSE IF Len(self.components) > MaxModalComponents THEN Err("TooMuchComponents")
    ELSE Ok(self)

\* Variant: >= where the code has > in the last check.
ModalBuilder_build_OffByOne(self) ==
    IF Len(self.custom_id) < 1 THEN Err("MissingCustomId")
    ELSE IF Len(self.title) < 1 THEN Err("MissingTitle")
    ELSE IF Len(self.components) < 1 THEN Err("MissingComponents")
    ELSE IF Len(self.components) >= MaxModalComponents THEN Err("TooMuchComponents")
    ELSE Ok(self)

ModalBuilder_build(self) ==
    IF Len(self.custom_id) < 1 THEN Err("MissingCustomId")
    ELSE IF Len(self.title) < 1 THEN Err("MissingTitle")
    ELSE IF Len(self.components) < 1 THEN Err("MissingComponents")
    ELSE IF Len(self.components) > MaxModalComponents THEN Err("TooMuchComponents")
    ELSE Ok(self)

ModalChars == {"a", "b"}

IdInputs == StrSamples(ModalChars, MaxCustomIdLen)

ModalTitleInputs == {Rep(ch, n) : ch \in ModalChars, n \in 0..LenEdge}

Components == {"c1", "c2"}

InitModal ==
    /\ mb = ModalDefault
    /\ result = None
    /\ added = <<>>
    /\ eb = EmbedDefault
    /\ ColorIdle /\ PartsIdle /\ ThumbIdle /\ CallIdle

CustomId ==
    /\ pc = "run"
    /\ \E id \in IdInputs :
        LET r == ModalBuilder_custom_id(mb, id) IN
        /\ mb' = r.self
        /\ warned' = r.warn
        /\ call' = [op |-> "ModalBuilder::custom_id", arg |-> <<id>>]
    /\ UNCHANGED <<result, added, eb, colorVars, partsVars, thumb, pc>>

ModalTitle ==
    /\ pc = "run"
    /\ \E t \in ModalTitleInputs :
        LET r == ModalBuilder_title(mb, t) IN
        /\ mb' = r.self
        /\ warned' = r.warn
        /\ call' = [op |-> "ModalBuilder::title", arg |-> <<t>>]
    /\ UNCHANGED <<result, added, eb, colorVars, partsVars, thumb, pc>>

AddComponent ==
    /\ pc = "run"
    /\ Len(added) < MaxModalAdds
    /\ \E c \in Components :
        LET r == ModalBuilder_add_component(mb, c) IN
        /\ mb' = r.self
        /\ warned' = r.warn
        /\ added' = Append(added, c)
        /\ call' = [op |-> "ModalBuilder::add_component", arg |-> <<c>>]
    /\ UNCHANGED <<result, eb, colorVars, partsVars, thumb, pc>>

\* build(self) consumes the builder; mb keeps the value the builder had.
ModalBuild ==
    /\ pc = "run"
    /\ result' = Some(ModalBuilder_build(mb))
    /\ pc' = "built"
    /\ warned' = FALSE
    /\ call' = [op |-> "ModalBuilder::build", arg |-> <<>>]
    /\ UNCHANGED <<mb, added, eb, colorVars, partsVars, thumb>>

NextModal == CustomId \/ ModalTitle \/ AddComponent \/ ModalBuild

SpecModal == InitModal /\ [][NextModal]_vars

\* The error of the first rule, in the order custom id, title, no component,
\* too many components, that the modal m violates ("" when it violates none).
FirstViolation(m) ==
    IF m.custom_id = <<>> THEN "MissingCustomId"
    ELSE IF m.title = <<>> THEN "MissingTitle"
    ELSE IF m.components = <<>> THEN "MissingComponents"
    ELSE IF Len(m.components) > 5 THEN "TooMuchComponents"
    ELSE ""

\* C2: build() reports the error of the first rule violated in the order
\* custom id empty, title empty, zero components, more than 5 components; with
\* an empty id the error is MissingCustomId whatever else is violated.
C2_ValidationOrder ==
    pc = "built" =>
        /\ result[1].err = FirstViolation(mb)
        /\ (mb.custom_id = <<>> => result[1] = Err("MissingCustomId"))

\* build() ran on a builder with empty id, empty title and no component.
C2_Witness ==
    /\ pc = "built"
    /\ mb = ModalDefault
    /\ result = Some(Err("MissingCustomId"))

\* C3: build() succeeds exactly when the id and the title are non-empty and
\* there are 1 to 5 components; with none it fails with MissingComponents; a
\* Modal it returns has an id of 1..100 characters, a non-empty title and the
\* 1..5 components that were added first, in insertion order.
C3_BuildOutcome ==
    pc = "built" =>
        LET r == result[1] IN
        /\ r.ok <=> /\ Len(mb.custom_id) >= 1
                    /\ Len(mb.title) >= 1
                    /\ Len(mb.components) \in 1..5
        /\ (Len(mb.custom_id) >= 1 /\ Len(mb.title) >= 1 /\ Len(added) \in {1, 5}) => r.ok
        /\ (Len(mb.custom_id) >= 1 /\ Len(mb.title) >= 1 /\ Len(added) = 0)
              => r = Err("MissingComponents")
        /\ r.ok =>
              LET m == r.modal[1] IN
              /\ Len(m.custom_id) \in 1..100
              /\ Len(m.title) >= 1
              /\ Len(m.components) \in 1..5
              /\ m.custom_id = mb.custom_id
              /\ m.title = mb.title
              /\ m.components = SubSeq(added, 1, Min(5, Len(added)))

\* A modal with a 100-character id and exactly 5 components was built.
C3_Witness ==
    /\ pc = "built"
    /\ result[1].ok
    /\ Len(added) = 5
    /\ Len(result[1].modal[1].components) = 5
    /\ Len(result[1].modal[1].custom_id) = 100

\* C4: the component list never holds more than 5 elements; add_component at
\* 5 components changes nothing of the builder and logs the violation, and
\* below 5 it appends the component after the earlier ones.
C4_ComponentCap ==
    /\ [](Len(mb.components) <= 5)
    /\ [][call'.op = "ModalBuilder::add_component" =>
            IF Len(mb.components) = 5
            THEN mb' = mb /\ warned'
            ELSE /\ mb'.components = mb.components \o call'.arg
                 /\ mb'.custom_id = mb.custom_id
                 /\ mb'.title = mb.title
                 /\ ~warned']_vars

\* A sixth add_component was made on a builder holding 5 components.
C4_Witness ==
    /\ call.op = "ModalBuilder::add_component"
    /\ warned
    /\ Len(added) = 6
    /\ mb.components = SubSeq(added, 1, 5)

\* C7: custom_id with more than 100 characters changes nothing of the builder
\* (a later build() sees the prior id); with at most 100 characters, the
\* empty string included, it replaces the id and leaves title and components;
\* so the stored id never has more than 100 characters.
C7_CustomIdSoftRejection ==
    /\ [](Len(mb.custom_id) <= 100)
    /\ [][call'.op = "ModalBuilder::custom_id" =>
            LET id == call'.arg[1] IN
            IF Len(id) > 100
            THEN mb' = mb
            ELSE /\ mb'.custom_id = id
                 /\ mb'.title = mb.title
                 /\ mb'.components = mb.components]_vars
    /\ [][(call'.op = "ModalBuilder::build" /\ result'[1].ok) =>
            result'[1].modal[1].custom_id = mb.custom_id]_vars

\* custom_id with 101 characters was called on a builder that had an id, a
\* title and a component.
C7_Witness ==
    /\ call.op = "ModalBuilder::custom_id"
    /\ Len(call.arg[1]) = 101
    /\ Len(mb.custom_id) = 100
    /\ mb.custom_id[1] # call.arg[1][1]
    /\ mb.title # <<>>
    /\ mb.components # <<>>

\* C10: build() on a builder reached by custom_id, title and add_component
\* calls never returns TooMuchComponents; its only errors are MissingCustomId,
\* MissingTitle and MissingComponents.
C10_TooManyUnreachable ==
    pc = "built" =>
        /\ result[1].err # "TooMuchComponents"
        /\ ~result[1].ok =>
              result[1].err \in {"MissingCustomId", "MissingTitle", "MissingComponents"}

\* build() ran after more add_component calls than the builder accepts.
C10_Witness ==
    /\ pc = "built"
    /\ Len(added) > 5
    /\ Len(mb.components) = 5

(***************************************************************************)
(* EmbedFooter, EmbedField, EmbedThumbnail setters (embed.rs 277-410)      *)
(***************************************************************************)
MaxTitleLen == 256

MaxFooterTextLen == 2048

MaxFieldNameLen == 256

MaxFieldValueLen == 1024

MaxEmbedFields == 25

\* to_string() of a text is a copy of the text.
to_string(text) == text

\* Each setter yields the value it returns and whether it panicked instead;
\* a panic drops self, and the caller gets nothing back.
Returned(self) == [self |-> self, panic |-> FALSE]

Panicked(self) == [self |-> self, panic |-> TRUE]

\* Variant: an over-long text is cut to the limit instead of panicking.
EmbedFooter_text_Truncates(self, text) ==
    LET t == to_string(text) IN
    Returned([self EXCEPT !.text = SubSeq(t, 1, Min(Len(t), MaxFooterTextLen))])

EmbedFooter_text(self, text) ==
    LET t == to_string(text) IN
    IF Len(t) > MaxFooterTextLen THEN Panicked(self)
    ELSE Returned([self EXCEPT !.text = t])

EmbedField_name(self, name) ==
    LET n == to_string(name) IN
    IF Len(n) > MaxFieldNameLen THEN Panicked(self)
    ELSE Returned([self EXCEPT !.name = n])

EmbedField_value(self, text) ==
    LET t == to_string(text) IN
    IF Len(t) > MaxFieldValueLen THEN Panicked(self)
    ELSE Returned([self EXCEPT !.value = t])

EmbedField_inline(self, inline) == Returned([self EXCEPT !.inline = Some(inline)])

EmbedThumbnail_url(self, url) ==
    LET u == to_string(url) IN Returned([self EXCEPT !.url = Some(u)])

EmbedThumbnail_proxy_url(self, url) ==
    LET u == to_string(url) IN Returned([self EXCEPT !.url = Some(u)])

EmbedThumbnail_dimensions(self, height, width) ==
    LET x == width
        y == height
    IN Returned([self EXCEPT !.height = Some(y), !.width = Some(x)])

(***************************************************************************)
(* EmbedBuilder (embed.rs 118-123, 165-275)                                *)
(***************************************************************************)
EmbedBuilder_title(self, title) ==
    LET t == to_string(title) IN
    IF Len(t) > MaxTitleLen THEN Panicked(self)
    ELSE Returned([self EXCEPT !.title = Some(t)])

EmbedBuilder_description(self, description) ==
    LET d == to_string(description) IN Returned([self EXCEPT !.description = Some(d)])

\* Variant: > where the code has >=.
EmbedBuilder_add_field_OffByOne(self, f) ==
    IF self.fields = None
    THEN [self |-> [self EXCEPT !.fields = Some(<<f>>)], warn |-> FALSE]
    ELSE IF Len(self.fields[1]) > MaxEmbedFields
         THEN [self |-> self, warn |-> TRUE]
         ELSE [self |-> [self EXCEPT !.fields = Some(Append(self.fields[1], f))],
               warn |-> FALSE]

\* add_field yields the builder it returns and whether it logged a warning.
EmbedBuilder_add_field(self, f) ==
    IF self.fields = None
    THEN [self |-> [self EXCEPT !.fields = Some(<<f>>)], warn |-> FALSE]
    ELSE IF Len(self.fields[1]) >= MaxEmbedFields
         THEN [self |-> self, warn |-> TRUE]
         ELSE [self |-> [self EXCEPT !.fields = Some(Append(self.fields[1], f))],
               warn |-> FALSE]

EmbedBuilder_thumbnail(self, thumbnail) ==
    Returned([self EXCEPT !.thumbnail = Some(thumbnail)])

EmbedBuilder_build(self) == self

\* Number of add_field calls the model makes on one builder, and how many of
\* the fields handed over carry an inline flag.
MaxFieldAdds == 27

MaxInlineFields == 1

EmbedTitleInputs == StrSamples({"t"}, MaxTitleLen)

EmbedDescriptionInputs == {Rep("d", MaxTitleLen + 1)}

\* The k-th field handed to add_field: EmbedField::default().name(k times "f"),
\* with .inline(true) when inl.
FieldInput(k, inl) ==
    LET f == EmbedField_name(EmbedFieldDefault, Rep("f", k)).self IN
    IF inl THEN EmbedField_inline(f, TRUE).self ELSE f

InlineCount == Cardinality({i \in 1..Len(added) : added[i].inline # None})

InitEmbed ==
    /\ eb = EmbedDefault
    /\ added = <<>>
    /\ mb = ModalDefault
    /\ result = None
    /\ ColorIdle /\ PartsIdle /\ ThumbIdle /\ CallIdle

\* A call on the EmbedBuilder that returned r.
EmbedCalled(r) ==
    IF r.panic
    THEN pc' = "panicked" /\ eb' = eb
    ELSE pc' = pc /\ eb' = r.self

EmbedTitle ==
    /\ pc = "run"
    /\ \E t \in EmbedTitleInputs :
        /\ EmbedCalled(EmbedBuilder_title(eb, t))
        /\ call' = [op |-> "EmbedBuilder::title", arg |-> <<t>>]
    /\ warned' = FALSE
    /\ UNCHANGED <<added, modalVars, colorVars, partsVars, thumb>>

EmbedDescription ==
    /\ pc = "run"
    /\ \E d \in EmbedDescriptionInputs :
        /\ EmbedCalled(EmbedBuilder_description(eb, d))
        /\ call' = [op |-> "EmbedBuilder::description", arg |-> <<d>>]
    /\ warned' = FALSE
    /\ UNCHANGED <<added, modalVars, colorVars, partsVars, thumb>>

AddField ==
    /\ pc = "run"
    /\ Len(added) < MaxFieldAdds
    /\ \E inl \in BOOLEAN :
        /\ inl => InlineCount < MaxInlineFields
        /\ LET f == FieldInput(Len(added) + 1, inl)
               r == EmbedBuilder_add_field(eb, f)
           IN /\ eb' = r.self
              /\ warned' = r.warn
              /\ added' = Append(added, f)
              /\ call' = [op |-> "EmbedBuilder::add_field", arg |-> <<f>>]
    /\ UNCHANGED <<modalVars, colorVars, partsVars, thumb, pc>>

\* build(self) consumes the builder; eb keeps the value the builder had.
EmbedBuild ==
    /\ pc = "run"
    /\ pc' = "built"
    /\ warned' = FALSE
    /\ call' = [op |-> "EmbedBuilder::build", arg |-> <<EmbedBuilder_build(eb)>>]
    /\ UNCHANGED <<eb, added, modalVars, colorVars, partsVars, thumb>>

NextEmbed == EmbedTitle \/ EmbedDescription \/ AddField \/ EmbedBuild

SpecEmbed == InitEmbed /\ [][NextEmbed]_vars

FieldCount == IF eb.fields = None THEN 0 ELSE Len(eb.fields[1])

\* C5: from a default EmbedBuilder the field list never holds more than 25
\* fields; it is absent before the first add_field and afterwards equals the
\* first 25 fields added, in insertion order; add_field at 25 fields is
\* ignored with a warning, not a panic, and changes no attribute of the embed.
C5_FieldCap ==
    /\ [](/\ FieldCount <= 25
          /\ eb.fields = IF added = <<>> THEN None
                          ELSE Some(SubSeq(added, 1, Min(25, Len(added)))))
    /\ [][(call'.op = "EmbedBuilder::add_field" /\ FieldCount = 25) =>
            (eb' = eb /\ warned' /\ pc' = "run")]_vars
    /\ [][(call'.op = "EmbedBuilder::add_field" /\ FieldCount < 25) =>
            (eb' = [eb EXCEPT !.fields = Some((IF eb.fields = None THEN <<>> ELSE eb.fields[1])
                                               \o call'.arg)]
             /\ ~warned' /\ pc' = "run")]_vars

\* A 26th add_field was made on a builder that has a title and 25 fields.
C5_Witness ==
    /\ call.op = "EmbedBuilder::add_field"
    /\ warned
    /\ Len(added) = 26
    /\ FieldCount = 25
    /\ eb.title # None
    /\ \E i \in 1..25 : eb.fields[1][i].inline # None

\* C6: title with a text of 256 characters succeeds and sets the title; with
\* more than 256 characters it fails without ending the process, and leaves
\* the builder usable with its prior title and other attributes unchanged.
C6_TitleLimit ==
    [][call'.op = "EmbedBuilder::title" =>
        LET t == call'.arg[1] IN
        IF Len(t) <= 256
        THEN eb' = [eb EXCEPT !.title = Some(t)] /\ pc' = "run"
        ELSE eb' = eb /\ pc' = "run"]_vars

(***************************************************************************)
(* Specification of the length-checked setters: EmbedFooter, EmbedField    *)
(* and EmbedBuilder::title                                                 *)
(***************************************************************************)
FooterTextInputs == StrSamples({"x"}, MaxFooterTextLen)

FieldNameInputs == StrSamples({"n"}, MaxFieldNameLen)

FieldValueInputs == StrSamples({"v"}, MaxFieldValueLen)

UrlInputs == {<<"u">>, <<"w">>}

InitParts ==
    /\ footer = EmbedFooterDefault
    /\ field = EmbedFieldDefault
    /\ eb = EmbedDefault
    /\ added = <<>>
    /\ ColorIdle /\ ModalIdle /\ ThumbIdle /\ CallIdle

FooterText ==
    /\ pc = "run"
    /\ \E t \in FooterTextInputs :
        LET r == EmbedFooter_text(footer, t) IN
        /\ IF r.panic THEN pc' = "panicked" /\ footer' = footer
                       ELSE pc' = pc /\ footer' = r.self
        /\ call' = [op |-> "EmbedFooter::text", arg |-> <<t>>]
    /\ warned' = FALSE
    /\ UNCHANGED <<field, embedVars, modalVars, colorVars, thumb>>

FieldName ==
    /\ pc = "run"
    /\ \E n \in FieldNameInputs :
        LET r == EmbedField_name(field, n) IN
        /\ IF r.panic THEN pc' = "panicked" /\ field' = field
                       ELSE pc' = pc /\ field' = r.self
        /\ call' = [op |-> "EmbedField::name", arg |-> <<n>>]
    /\ warned' = FALSE
    /\ UNCHANGED <<footer, embedVars, modalVars, colorVars, thumb>>

FieldValue ==
    /\ pc = "run"
    /\ \E t \in FieldValueInputs :
        LET r == EmbedField_value(field, t) IN
        /\ IF r.panic THEN pc' = "panicked" /\ field' = field
                       ELSE pc' = pc /\ field' = r.self
        /\ call' = [op |-> "EmbedField::value", arg |-> <<t>>]
    /\ warned' = FALSE
    /\ UNCHANGED <<footer, embedVars, modalVars, colorVars, thumb>>

FieldInline ==
    /\ pc = "run"
    /\ \E b \in BOOLEAN :
        /\ field' = EmbedField_inline(field, b).self
        /\ call' = [op |-> "EmbedField::inline", arg |-> <<b>>]
    /\ warned' = FALSE
    /\ UNCHANGED <<footer, embedVars, modalVars, colorVars, thumb, pc>>

NextParts ==
    FooterText \/ FieldName \/ FieldValue \/ FieldInline \/ EmbedTitle

SpecParts == InitParts /\ [][NextParts]_vars

\* What a length-checked setter must do with the text t when the limit is
\* max: store it (old and new are the attribute before and after the call),
\* or panic and store nothing.
HardLimit(t, max, old, new) ==
    IF Len(t) <= max
    THEN new = t /\ pc' = "run"
    ELSE new = old /\ new # t /\ pc' = "panicked"

\* C9: a footer text never has more than 2048 characters, a field name never
\* more than 256, a field value never more than 1024 and an embed title never
\* more than 256; a setter called with a text at the limit stores it, and
\* called with a longer text it is rejected by a panic: the text is not
\* stored, not truncated and not silently ignored.
C9_HardLimits ==
    /\ [](/\ Len(footer.text) <= 2048
          /\ Len(field.name) <= 256
          /\ Len(field.value) <= 1024
          /\ eb.title # None => Len(eb.title[1]) <= 256)
    /\ [][call'.op = "EmbedFooter::text" =>
            HardLimit(call'.arg[1], 2048, footer.text, footer'.text)]_vars
    /\ [][call'.op = "EmbedField::name" =>
            HardLimit(call'.arg[1], 256, field.name, field'.name)]_vars
    /\ [][call'.op = "EmbedField::value" =>
            HardLimit(call'.arg[1], 1024, field.value, field'.value)]_vars
    /\ [][call'.op = "EmbedBuilder::title" =>
            HardLimit(call'.arg[1], 256,
                      IF eb.title = None THEN <<"?">> ELSE eb.title[1],
                      IF eb'.title = None THEN <<"?">> ELSE eb'.title[1])]_vars

\* A footer holding 2048 characters was handed 2049 characters, and panicked.
C9_Witness ==
    /\ call.op = "EmbedFooter::text"
    /\ Len(call.arg[1]) = 2049
    /\ Len(footer.text) = 2048
    /\ pc = "panicked"

(***************************************************************************)
(* Specification of the EmbedThumbnail setters                             *)
(***************************************************************************)
DimensionInputs == {16, 32}

InitThumb ==
    /\ thumb = EmbedThumbnailDefault
    /\ ColorIdle /\ ModalIdle /\ EmbedIdle /\ PartsIdle /\ CallIdle

ThumbUrl ==
    /\ \E u \in UrlInputs :
        /\ thumb' = EmbedThumbnail_url(thumb, u).self
        /\ call' = [op |-> "EmbedThumbnail::url", arg |-> <<u>>]
    /\ UNCHANGED <<footer, field, embedVars, modalVars, colorVars, warned, pc>>

ThumbProxyUrl ==
    /\ \E u \in UrlInputs :
        /\ thumb' = EmbedThumbnail_proxy_url(thumb, u).self
        /\ call' = [op |-> "EmbedThumbnail::proxy_url", arg |-> <<u>>]
    /\ UNCHANGED <<footer, field, embedVars, modalVars, colorVars, warned, pc>>

ThumbDimensions ==
    /\ \E h \in DimensionInputs, w \in DimensionInputs :
        /\ thumb' = EmbedThumbnail_dimensions(thumb, h, w).self
        /\ call' = [op |-> "EmbedThumbnail::dimensions", arg |-> <<h, w>>]
    /\ UNCHANGED <<footer, field, embedVars, modalVars, colorVars, warned, pc>>

\* EmbedBuilder::default().thumbnail(thumb.clone())
ThumbAttach ==
    /\ eb' = EmbedBuilder_thumbnail(eb, thumb).self
    /\ call' = [op |-> "EmbedBuilder::thumbnail", arg |-> <<thumb>>]
    /\ UNCHANGED <<thumb, added, footer, field, modalVars, colorVars, warned, pc>>

NextThumb == ThumbUrl \/ ThumbProxyUrl \/ ThumbDimensions \/ ThumbAttach

SpecThumb == InitThumb /\ [][NextThumb]_vars

\* C8: after proxy_url(u) the thumbnail's proxy_url is u, and its url, height
\* and width are what they were before the call.
C8_ThumbnailProxyUrl ==
    [][call'.op = "EmbedThumbnail::proxy_url" =>
        thumb' = [thumb EXCEPT !.proxy_url = Some(call'.arg[1])]]_vars

====
